---- MODULE Spec2Model ----
(***************************************************************************)
(* A model of the sentinel server's chat ingestion pipeline                *)
(* (apiCreateNewChatHandler and its helpers), of the tool-call state query *)
(* (apiGetToolCallStateHandler) and of the review hub started by main.     *)
(*                                                                         *)
(* Every Store call is one atomic step: the handlers hold no lock across   *)
(* Store calls, so other handlers and the supervisors that update chain    *)
(* states may run between two steps of one handler.                        *)
(***************************************************************************)
EXTENDS Integers, Sequences, FiniteSets, TLC

VARIABLES
    goLoopVarPerIteration, \* the build: TRUE when the module's go directive is >= 1.22
    storeMsgs,             \* Store: the messages logged for the run, in order
    numChats,              \* Store: the number of chats written for the run
    ingestCount,           \* number of POST /api/review requests received so far
    pc,                    \* pc[h]: where ingestion handler h stands
    loc,                   \* loc[h]: the local variables of handler h
    resp,                  \* resp[h]: what handler h answered last
    persistedAt,           \* history: persistedAt[i], the position that the i-th logged
                           \*          message had in the request it came with
    overlapped,            \* history: an ingestion began while another was in flight
    unknownInLogged,       \* history: unknownInLogged[h], the request of handler h named a
                           \*          tool that is not registered in a message that the
                           \*          prefix cut would have dropped
    chainExec,             \* Store: chainExec[c], the state of chain c's execution against
                           \*        the tool call, "none" while there is no execution
    qpc,                   \* qpc[q]: where state query handler q stands
    qloc,                  \* qloc[q]: the local variables of query handler q
    qresp,                 \* qresp[q]: what query handler q answered last
    qhist,                 \* history: qhist[q].prev, the chain states handler q returned to
                           \*          its previous query if no chain state changed since that
                           \*          query began; qhist[q].changed, a chain state changed
                           \*          since the current query began
    clients,               \* Hub: the registry, the set of registered subscribers
    subState,              \* subState[s]: the state of subscriber s's connection
    unregisterReq,         \* Hub: the subscribers whose unregister request is in flight
    send,                  \* send[s]: the outbound queue of subscriber s
    received,              \* received[s]: the events written to s's connection, in order
    published,             \* Hub: the number of events published; event e is the e-th
    audience,              \* history: audience[e], the registry when event e was published
    delivered,             \* history: delivered[s], the events the hub queued for s, in order
    droppedAt,             \* history: droppedAt[s], the event that found s's queue full, or 0
    cmMessage,             \* convertMessage alone: the message it is given
    cmResult               \* convertMessage alone: what it returned, <<>> before the call

hubVars == <<clients, subState, unregisterReq, send, received, published, audience,
             delivered, droppedAt>>

convVars == <<cmMessage, cmResult>>

queryVars == <<chainExec, qpc, qloc, qresp, qhist>>

ingestVars == <<goLoopVarPerIteration, storeMsgs, numChats, ingestCount, pc, loc, resp,
                persistedAt, overlapped, unknownInLogged>>

---------------------------------------------------------------------------
(* Bounds of the model. *)

\* messages in one request
MaxReqMsgs == 2
\* choices in one response
MaxChoices == 2
\* requests received in one behaviour
MaxIngestions == 2
\* chains configured for the tool of the queried tool call
MaxChains == 2
\* subscribers that connect to the hub
NumSubscribers == 2
\* events published in one behaviour
MaxEvents == 3
\* capacity of a subscriber's outbound queue
SendBuffer == 2
\* parts in a message's multi-part content
MaxParts == 2

---------------------------------------------------------------------------
(* Values. *)

Handlers == {"h1", "h2"}

\* net/http status codes
StatusOK == 200
StatusBadRequest == 400
StatusInternalServerError == 500
\* A handler that answers a missing tool call like a Store failure.
StatusNotFoundAsInternal == StatusInternalServerError
StatusNotFound == 404

Text == "text"
ImageUrl == "image_url"
\* the zero value of MessageType, left by `var msgType MessageType`
NoType == ""

\* Tool names registered for the run; any other name resolves to no tool.
RegisteredTools == {"t1", "t2"}
ToolNames == RegisteredTools \cup {"ghost"}

\* tool.Id.String() of the tool registered under a name
ToolIdOf(name) == <<"tool", name>>

\* uuid.New(): the i-th identifier drawn while serving request number n
NewId(n, i) == <<n, i>>

SeqsUpTo(S, k) == UNION {[1..m -> S] : m \in 0..k}

Max(S) == CHOOSE x \in S : \A y \in S : y <= x
Min(S) == CHOOSE x \in S : \A y \in S : x <= y

\* openai.ToolCall
OaToolCall(name) == [Name |-> name, Arguments |-> "args"]

\* openai.ChatCompletionMessage; HasMulti is MultiContent != nil
OaMessage(role, content, toolNames) ==
    [Role |-> role, Content |-> content, HasMulti |-> FALSE, MultiContent |-> <<>>,
     ToolCalls |-> [i \in 1..Len(toolNames) |-> OaToolCall(toolNames[i])]]

\* The request messages a client may send.
RequestMessages ==
    { OaMessage("user", "a", <<>>),
      OaMessage("assistant", "b", <<"t1">>),
      OaMessage("assistant", "g", <<"ghost">>) }

\* openai.ChatCompletionChoice
OaChoice(index, content, toolNames, finish) ==
    [Index |-> index, Message |-> OaMessage("assistant", content, toolNames),
     FinishReason |-> finish]

\* The response choices a client may send.
ResponseChoices ==
    { OaChoice(0, "c", <<>>, "stop"),
      OaChoice(1, "", <<"t1", "t2">>, "tool_calls"),
      OaChoice(0, "", <<"t1", "ghost">>, "odd") }

\* RequestData / ResponseData: not base64, base64 of something that is not the
\* JSON of a request / response, or the encoding of a value.
BadBase64 == [enc |-> "badb64", val |-> <<>>]
BadJson == [enc |-> "badjson", val |-> <<>>]
Encoded(v) == [enc |-> "ok", val |-> v]

RequestDatas == {BadBase64, BadJson} \cup {Encoded(m) : m \in SeqsUpTo(RequestMessages, MaxReqMsgs)}
ResponseDatas == {BadBase64, BadJson} \cup {Encoded(c) : c \in SeqsUpTo(ResponseChoices, MaxChoices)}

\* The body of POST /api/review: not the JSON of a SentinelChat, or one.
Bodies == {[json |-> FALSE, RequestData |-> BadBase64]}
              \cup {[json |-> TRUE, RequestData |-> r] : r \in RequestDatas}

\* The causes of failure that are failures of the Store.
StoreFailures ==
    {"error getting tool", "error getting messages for run", "error creating chat request"}

\* A Store read of a tool may fail: the name whose lookup fails, or "none".
ToolFaults == {"none", "t1"}

---------------------------------------------------------------------------
(* The conversion functions. A result is [res |-> "ok", val |-> v] or      *)
(* [res |-> "err", cause |-> c], c saying what failed.                     *)

Ok(v) == [res |-> "ok", val |-> v]
Err(c) == [res |-> "err", cause |-> c]

\* The first failing element of a sequence of results, as the loops return it.
FirstFailure(results) ==
    results[Min({i \in 1..Len(results) : results[i].res # "ok"})]

AllOk(results) == \A i \in 1..Len(results) : results[i].res = "ok"

Values(results) == [i \in 1..Len(results) |-> results[i].val]

convertToolCall(toolCall, id, fault) ==
    IF toolCall.Name = fault THEN Err("error getting tool")
    ELSE IF toolCall.Name \notin RegisteredTools THEN Err("tool not found")
    ELSE Ok([Id |-> id, ToolId |-> ToolIdOf(toolCall.Name),
             Name |-> toolCall.Name, Arguments |-> toolCall.Arguments])

\* A convertToolCalls that skips a tool call whose tool is not registered.
convertToolCallsSkipMissing(toolCalls, n, base, fault) ==
    LET results == [i \in 1..Len(toolCalls) |->
                        convertToolCall(toolCalls[i], NewId(n, base + i), fault)]
        kept == SelectSeq(results, LAMBDA r : r.res = "ok" \/ r.cause # "tool not found")
    IN  IF AllOk(kept) THEN Ok(Values(kept)) ELSE FirstFailure(kept)

\* The i-th tool call draws identifier number base + i.
convertToolCalls(toolCalls, n, base, fault) ==
    LET results == [i \in 1..Len(toolCalls) |->
                        convertToolCall(toolCalls[i], NewId(n, base + i), fault)]
    IN  IF AllOk(results) THEN Ok(Values(results)) ELSE FirstFailure(results)

\* Identifiers drawn by a successful convertMessage: one per tool call, one for the message.
IdsOfMessage(message) == Len(message.ToolCalls) + 1

convertMessage(message, n, base, fault) ==
    LET toolCalls == convertToolCalls(message.ToolCalls, n, base, fault)
        mc == message.MultiContent
        images == {i \in 1..Len(mc) : mc[i].Type = "image_url"}
        msgType == IF message.HasMulti
                   THEN (IF images = {} THEN NoType ELSE ImageUrl)
                   ELSE Text
        msgContent == IF message.HasMulti
                      THEN (IF images = {} THEN "" ELSE mc[Max(images)].URL)
                      ELSE message.Content
    IN  IF toolCalls.res # "ok" THEN toolCalls
        ELSE IF \E i \in images : ~mc[i].HasImageURL THEN [res |-> "panic", cause |-> "nil ImageURL"]
        ELSE Ok([Id |-> NewId(n, base + IdsOfMessage(message)),
                 Role |-> message.Role,
                 ToolCalls |-> toolCalls.val,
                 Type |-> msgType,
                 Content |-> msgContent])

RECURSIVE IdsOfMessages(_)
IdsOfMessages(messages) ==
    IF messages = <<>> THEN 0
    ELSE IdsOfMessage(Head(messages)) + IdsOfMessages(Tail(messages))

\* A validateAndDecodeRequest that resolves the tool calls of the last message only.
validateAndDecodeRequestLastOnly(encodedData, n, fault) ==
    IF encodedData.enc = "badb64" THEN Err("invalid base64 format")
    ELSE IF encodedData.enc = "badjson" THEN Err("invalid request format")
    ELSE LET messages == encodedData.val
             results == [i \in 1..Len(messages) |->
                            convertMessage(IF i = Len(messages) THEN messages[i]
                                           ELSE [messages[i] EXCEPT !.ToolCalls = <<>>],
                                           n, IdsOfMessages(SubSeq(messages, 1, i - 1)), fault)]
         IN  IF AllOk(results)
             THEN Ok([json |-> messages, messages |-> Values(results)])
             ELSE FirstFailure(results)

\* validateAndDecodeRequest: the marshalled request and the converted messages.
validateAndDecodeRequest(encodedData, n, fault) ==
    IF encodedData.enc = "badb64" THEN Err("invalid base64 format")
    ELSE IF encodedData.enc = "badjson" THEN Err("invalid request format")
    ELSE LET messages == encodedData.val
             results == [i \in 1..Len(messages) |->
                            convertMessage(messages[i], n,
                                           IdsOfMessages(SubSeq(messages, 1, i - 1)), fault)]
         IN  IF AllOk(results)
             THEN Ok([json |-> messages, messages |-> Values(results)])
             ELSE FirstFailure(results)

\* validateAndDecodeResponse: the marshalled response and the decoded choices.
validateAndDecodeResponse(encodedData) ==
    IF encodedData.enc = "badb64" THEN Err("invalid base64 format")
    ELSE IF encodedData.enc = "badjson" THEN Err("invalid response format")
    ELSE Ok([json |-> encodedData.val, Choices |-> encodedData.val])

\* Identifiers drawn by choices 1..k: each converts its message, then draws the choice's own.
RECURSIVE IdsOfChoices(_)
IdsOfChoices(choices) ==
    IF choices = <<>> THEN 0
    ELSE IdsOfMessage(Head(choices).Message) + 1 + IdsOfChoices(Tail(choices))

convertChoices(choices, n, base, fault) ==
    LET start(i) == base + IdsOfChoices(SubSeq(choices, 1, i - 1))
        results == [i \in 1..Len(choices) |->
                       LET message == convertMessage(choices[i].Message, n, start(i), fault)
                       IN  IF message.res # "ok" THEN message
                           ELSE Ok([SentinelId |-> NewId(n, start(i) + IdsOfMessage(choices[i].Message) + 1),
                                    Index |-> choices[i].Index,
                                    Message |-> message.val,
                                    FinishReason |-> choices[i].FinishReason])]
    IN  IF AllOk(results) THEN Ok(Values(results)) ELSE FirstFailure(results)

\* A filterRequestMessages that cuts nothing: every message of the request is new.
filterRequestMessagesKeepAll(requestMessages, messagesForRun) == Ok(requestMessages)

\* A filterRequestMessages that cuts one message too many.
filterRequestMessagesOffByOne(requestMessages, messagesForRun) ==
    LET numMessagesLogged == Len(messagesForRun) + 1
    IN  IF numMessagesLogged > Len(requestMessages)
        THEN Ok(<<>>)
        ELSE Ok(SubSeq(requestMessages, numMessagesLogged + 1, Len(requestMessages)))

\* filterRequestMessages, given what store.GetMessagesForRun returned:
\* requestMessages[numMessagesLogged:], which panics when the cut is out of range.
filterRequestMessages(requestMessages, messagesForRun) ==
    LET numMessagesLogged == Len(messagesForRun)
    IN  IF numMessagesLogged > Len(requestMessages)
        THEN [res |-> "panic", cause |-> "slice bounds out of range"]
        ELSE Ok(SubSeq(requestMessages, numMessagesLogged + 1, Len(requestMessages)))

\* The ToolCallIds of one choice. Each entry holds the addresses &toolCall.Id and
\* &toolCall.ToolId of the range variable: one variable per iteration from Go 1.22
\* on, one variable for the whole loop before, which ends holding the last tool call.
toolCallIdsOf(toolCalls, perIteration) ==
    [i \in 1..Len(toolCalls) |->
        LET seen == IF perIteration THEN toolCalls[i] ELSE toolCalls[Len(toolCalls)]
        IN  [ToolCallId |-> seen.Id, ToolId |-> seen.ToolId]]

\* A projection that lists the choices last to first.
extractChatIdsReversed(chatId, choices, perIteration) ==
    [ChatId |-> chatId,
     ChoiceIds |-> [c \in 1..Len(choices) |->
                       LET choice == choices[Len(choices) + 1 - c]
                       IN  [ChoiceId |-> choice.SentinelId,
                            MessageId |-> choice.Message.Id,
                            ToolCallIds |-> toolCallIdsOf(choice.Message.ToolCalls, perIteration)]]]

\* Lines 239-265: the identifiers of the chat, and of each choice in turn.
extractChatIds(chatId, choices, perIteration) ==
    [ChatId |-> chatId,
     ChoiceIds |-> [c \in 1..Len(choices) |->
                       [ChoiceId |-> choices[c].SentinelId,
                        MessageId |-> choices[c].Message.Id,
                        ToolCallIds |-> toolCallIdsOf(choices[c].Message.ToolCalls, perIteration)]]]

---------------------------------------------------------------------------
(* POST /api/review: apiCreateNewChatHandler, one action per Store call.   *)

EmptyLoc ==
    [n |-> 0, jsonRequest |-> <<>>, requestMessages |-> <<>>, filtered |-> FALSE,
     messagesForRun |-> <<>>, newRequestMessages |-> <<>>, jsonResponse |-> <<>>,
     choices |-> <<>>, createArgs |-> <<>>]

NoResponse == [outcome |-> "none", status |-> 0, error |-> "", cause |-> "", body |-> <<>>]

\* sendErrorResponse(w, status, message, details)
sendErrorResponse(status, message, cause) ==
    [outcome |-> "error", status |-> status, error |-> message, cause |-> cause, body |-> <<>>]

\* respondJSON(w, value, http.StatusOK)
respondJSON(value) ==
    [outcome |-> "ok", status |-> StatusOK, error |-> "", cause |-> "", body |-> <<value>>]

\* A panic of the handler's goroutine: net/http recovers it and drops the
\* connection, so the client gets no response.
Panicked(cause) ==
    [outcome |-> "panic", status |-> 0, error |-> "", cause |-> cause, body |-> <<>>]

\* Lines 30-42: decode the body, then decode the request and convert its messages
\* (each tool call of each message is looked up in the Store).
IngestBegin(h, body, fault) ==
    /\ pc[h] = "idle"
    /\ ingestCount < MaxIngestions
    /\ ingestCount' = ingestCount + 1
    /\ LET n == ingestCount + 1
           request == validateAndDecodeRequest(body.RequestData, n, fault)
           fresh == [EmptyLoc EXCEPT !.n = n]
       IN  IF ~body.json
           THEN /\ resp' = [resp EXCEPT ![h] = sendErrorResponse(StatusBadRequest, "Invalid JSON format", "body")]
                /\ loc' = [loc EXCEPT ![h] = fresh]
                /\ pc' = pc
           ELSE IF request.res = "err"
           THEN /\ resp' = [resp EXCEPT ![h] = sendErrorResponse(StatusBadRequest, "Request", request.cause)]
                /\ loc' = [loc EXCEPT ![h] = fresh]
                /\ pc' = pc
           ELSE IF request.res = "panic"
           THEN /\ resp' = [resp EXCEPT ![h] = Panicked(request.cause)]
                /\ loc' = [loc EXCEPT ![h] = fresh]
                /\ pc' = pc
           ELSE /\ resp' = [resp EXCEPT ![h] = NoResponse]
                /\ loc' = [loc EXCEPT ![h] = [fresh EXCEPT !.jsonRequest = request.val.json,
                                                            !.requestMessages = request.val.messages]]
                /\ pc' = [pc EXCEPT ![h] = "filter"]
    /\ overlapped' = (overlapped \/ (pc'[h] # "idle" /\ \E g \in Handlers \ {h} : pc[g] # "idle"))
    /\ unknownInLogged' = [unknownInLogged EXCEPT ![h] =
                               /\ body.json
                               /\ body.RequestData.enc = "ok"
                               /\ \E i \in 1..Min({Len(body.RequestData.val), Len(storeMsgs)}) :
                                      \E j \in 1..Len(body.RequestData.val[i].ToolCalls) :
                                          body.RequestData.val[i].ToolCalls[j].Name
                                              \notin RegisteredTools]
    /\ UNCHANGED <<goLoopVarPerIteration, storeMsgs, numChats, persistedAt>>
    /\ UNCHANGED <<queryVars, hubVars, convVars>>

\* Lines 47-51: store.GetMessagesForRun, then the prefix cut.
IngestFilter(h, storeFails) ==
    /\ pc[h] = "filter"
    /\ LET cut == filterRequestMessages(loc[h].requestMessages, storeMsgs)
       IN  IF storeFails
           THEN /\ resp' = [resp EXCEPT ![h] = sendErrorResponse(StatusBadRequest, "Error filtering request messages",
                                                                  "error getting messages for run")]
                /\ loc' = loc
                /\ pc' = [pc EXCEPT ![h] = "idle"]
           ELSE IF cut.res = "panic"
           THEN /\ resp' = [resp EXCEPT ![h] = Panicked(cut.cause)]
                /\ loc' = [loc EXCEPT ![h].filtered = TRUE,
                                      ![h].messagesForRun = storeMsgs]
                /\ pc' = [pc EXCEPT ![h] = "idle"]
           ELSE /\ resp' = resp
                /\ loc' = [loc EXCEPT ![h].filtered = TRUE,
                                      ![h].messagesForRun = storeMsgs,
                                      ![h].newRequestMessages = cut.val]
                /\ pc' = [pc EXCEPT ![h] = "response"]
    /\ UNCHANGED <<goLoopVarPerIteration, storeMsgs, numChats, ingestCount, persistedAt, overlapped,
                   unknownInLogged>>
    /\ UNCHANGED <<queryVars, hubVars, convVars>>

\* Lines 53-64: decode the response and convert its choices. ResponseData came with
\* the request; the handler reads it here for the first time, so it is drawn here.
IngestResponse(h, responseData, fault) ==
    /\ pc[h] = "response"
    /\ LET response == validateAndDecodeResponse(responseData)
           choices == convertChoices(response.val.Choices, loc[h].n,
                                     IdsOfMessages(loc[h].jsonRequest), fault)
       IN  IF response.res # "ok"
           THEN /\ resp' = [resp EXCEPT ![h] = sendErrorResponse(StatusBadRequest, "Response", response.cause)]
                /\ loc' = loc
                /\ pc' = [pc EXCEPT ![h] = "idle"]
           ELSE IF choices.res = "err"
           THEN /\ resp' = [resp EXCEPT ![h] = sendErrorResponse(StatusBadRequest, "Error converting choices", choices.cause)]
                /\ loc' = [loc EXCEPT ![h].jsonResponse = response.val.json]
                /\ pc' = [pc EXCEPT ![h] = "idle"]
           ELSE IF choices.res = "panic"
           THEN /\ resp' = [resp EXCEPT ![h] = Panicked(choices.cause)]
                /\ loc' = [loc EXCEPT ![h].jsonResponse = response.val.json]
                /\ pc' = [pc EXCEPT ![h] = "idle"]
           ELSE /\ resp' = resp
                /\ loc' = [loc EXCEPT ![h].jsonResponse = response.val.json,
                                      ![h].choices = choices.val]
                /\ pc' = [pc EXCEPT ![h] = "create"]
    /\ UNCHANGED <<goLoopVarPerIteration, storeMsgs, numChats, ingestCount, persistedAt, overlapped,
                   unknownInLogged>>
    /\ UNCHANGED <<queryVars, hubVars, convVars>>

\* store.CreateChatRequest: one write that logs the new messages of the chat for
\* the run and returns the chat's identifier; a failed write logs nothing.
CreateChatRequest(args) ==
    [msgs |-> storeMsgs \o args.newRequestMessages,
     chats |-> numChats + 1,
     id |-> <<"chat", numChats + 1>>]

\* Lines 66-75: the Store write, then the projection of the identifiers.
IngestCreate(h, storeFails) ==
    /\ pc[h] = "create"
    /\ LET args == [jsonRequest |-> loc[h].jsonRequest,
                    jsonResponse |-> loc[h].jsonResponse,
                    choices |-> loc[h].choices,
                    provider |-> "openai",
                    newRequestMessages |-> loc[h].newRequestMessages]
           written == CreateChatRequest(args)
       IN  /\ loc' = [loc EXCEPT ![h].createArgs = Append(@, args)]
           /\ IF storeFails
              THEN /\ resp' = [resp EXCEPT ![h] = sendErrorResponse(StatusBadRequest, "Error creating chat request",
                                                                     "error creating chat request")]
                   /\ UNCHANGED <<storeMsgs, numChats, persistedAt>>
              ELSE /\ resp' = [resp EXCEPT ![h] =
                                  respondJSON(extractChatIds(written.id, loc[h].choices,
                                                             goLoopVarPerIteration))]
                   /\ storeMsgs' = written.msgs
                   /\ numChats' = written.chats
                   /\ persistedAt' = persistedAt \o
                          [i \in 1..Len(args.newRequestMessages) |->
                              Len(loc[h].requestMessages) - Len(args.newRequestMessages) + i]
    /\ pc' = [pc EXCEPT ![h] = "idle"]
    /\ UNCHANGED <<goLoopVarPerIteration, ingestCount, overlapped, unknownInLogged>>
    /\ UNCHANGED <<queryVars, hubVars, convVars>>

IngestInit ==
    /\ goLoopVarPerIteration \in BOOLEAN
    /\ storeMsgs = <<>>
    /\ numChats = 0
    /\ ingestCount = 0
    /\ pc = [h \in Handlers |-> "idle"]
    /\ loc = [h \in Handlers |-> EmptyLoc]
    /\ resp = [h \in Handlers |-> NoResponse]
    /\ persistedAt = <<>>
    /\ overlapped = FALSE
    /\ unknownInLogged = [h \in Handlers |-> FALSE]

\* One request at a time, as the callers of a run are told to send them.
Sequential == {"h1"}

IngestNext ==
    \E h \in Sequential :
        \/ \E body \in Bodies, fault \in ToolFaults : IngestBegin(h, body, fault)
        \/ \E storeFails \in BOOLEAN : IngestFilter(h, storeFails)
        \/ \E responseData \in ResponseDatas, fault \in ToolFaults :
               IngestResponse(h, responseData, fault)
        \/ \E storeFails \in BOOLEAN : IngestCreate(h, storeFails)

\* Two requests for one run served together: net/http runs each request's handler
\* in a goroutine of its own, and the handler takes no lock.
Concurrent == Handlers

\* The well-formed requests and responses whose tools are all registered.
ConcBodies ==
    {body \in Bodies :
        /\ body.json
        /\ body.RequestData.enc = "ok"
        /\ \A i \in 1..Len(body.RequestData.val) :
              \A j \in 1..Len(body.RequestData.val[i].ToolCalls) :
                  body.RequestData.val[i].ToolCalls[j].Name \in RegisteredTools}

ConcResponses == {Encoded(<<OaChoice(0, "c", <<>>, "stop")>>)}

ConcNext ==
    \E h \in Concurrent :
        \/ \E body \in ConcBodies : IngestBegin(h, body, "none")
        \/ IngestFilter(h, FALSE)
        \/ \E responseData \in ConcResponses : IngestResponse(h, responseData, "none")
        \/ \E storeFails \in BOOLEAN : IngestCreate(h, storeFails)

---------------------------------------------------------------------------
(* The tool-call state query: apiGetToolCallStateHandler, one action per   *)
(* Store call, and the supervisors that change chain states meanwhile.     *)

Queries == {"q1"}

\* The states of a chain execution.
ChainStates == {"pending", "approved", "rejected", "failed"}

\* store.GetSupervisorChains(toolId): the chains of the tool, in the Store's order.
Chains == [i \in 1..MaxChains |-> i]

\* The tool calls a client may ask for: one the Store holds, one it holds with a
\* ToolId that is no UUID, and one it does not hold.
ToolCallIds == {"tc", "tcBadToolId", "missing"}

\* store.GetToolCall(id): the set of the records found (none, or one).
GetToolCall(id) ==
    IF id = "tc" THEN {[Id |-> id, ToolId |-> ToolIdOf("t1")]}
    ELSE IF id = "tcBadToolId" THEN {[Id |-> id, ToolId |-> <<"not a uuid">>]}
    ELSE {}

\* uuid.Parse succeeds on the identifier of a tool
ParsesAsUuid(toolId) == toolId[1] = "tool"

\* lookup is what store.GetToolCall returned: "err" (err != nil), "nil" (no tool
\* call, no error) or "found"; "" before the call.
EmptyQloc ==
    [toolCallId |-> "missing", lookup |-> "", execution |-> <<>>, chains |-> <<>>, i |-> 0]

\* The aggregation rule over per-chain states: a failure outranks a rejection,
\* which outranks a pending chain; otherwise every chain approved.
AggregateStatus(states) ==
    LET has(s) == \E i \in 1..Len(states) : states[i] = s
    IN  IF has("failed") THEN "failed"
        ELSE IF has("rejected") THEN "rejected"
        ELSE IF has("pending") THEN "pending"
        ELSE "approved"

\* getToolCallStatus(ctx, toolCallId, store): it is handed the Store and the tool
\* call's identifier, not the states the handler collected, and aggregates the
\* states the Store holds when it is called.
getToolCallStatus(store) ==
    AggregateStatus([i \in 1..Len(Chains) |-> store[Chains[i]]])

QueryError(q, message) ==
    /\ qresp' = [qresp EXCEPT ![q] = sendErrorResponse(StatusInternalServerError, message, "")]
    /\ qpc' = [qpc EXCEPT ![q] = "idle"]

\* Lines 281-303: look the tool call up and parse its tool's identifier.
QueryBegin(q, id, storeFails) ==
    /\ qpc[q] = "idle"
    /\ LET found == GetToolCall(id)
           toolCall == CHOOSE t \in found : TRUE
           fresh == [EmptyQloc EXCEPT !.toolCallId = id,
                                      !.lookup = IF storeFails THEN "err"
                                                 ELSE IF found = {} THEN "nil" ELSE "found"]
       IN  IF storeFails
           THEN /\ QueryError(q, "error getting tool call")
                /\ qloc' = [qloc EXCEPT ![q] = fresh]
           ELSE IF found = {}
           THEN /\ qresp' = [qresp EXCEPT ![q] = sendErrorResponse(StatusNotFound, "Run not found", "")]
                /\ qpc' = qpc
                /\ qloc' = [qloc EXCEPT ![q] = fresh]
           ELSE IF ~ParsesAsUuid(toolCall.ToolId)
           THEN /\ QueryError(q, "error parsing tool id")
                /\ qloc' = [qloc EXCEPT ![q] = [fresh EXCEPT !.execution =
                               <<[Chains |-> <<>>, Toolcall |-> toolCall, Status |-> ""]>>]]
           ELSE /\ qresp' = [qresp EXCEPT ![q] = NoResponse]
                /\ qpc' = [qpc EXCEPT ![q] = "chains"]
                /\ qloc' = [qloc EXCEPT ![q] = [fresh EXCEPT !.execution =
                               <<[Chains |-> <<>>, Toolcall |-> toolCall, Status |-> ""]>>]]
    /\ qhist' = [qhist EXCEPT ![q] =
                    [prev |-> IF qresp[q].outcome = "ok" /\ ~qhist[q].changed
                              THEN <<qresp[q].body[1].Chains>> ELSE <<>>,
                     changed |-> FALSE]]
    /\ UNCHANGED chainExec
    /\ UNCHANGED <<ingestVars, hubVars, convVars>>

\* Where the loop over the chains goes after i chains: the next chain, or the status.
AfterChain(chains, i) == IF i < Len(chains) THEN "execution" ELSE "status"

\* Lines 305-310: store.GetSupervisorChains.
QueryChains(q, storeFails) ==
    /\ qpc[q] = "chains"
    /\ IF storeFails
       THEN /\ QueryError(q, "error getting chains")
            /\ qloc' = qloc
       ELSE /\ qloc' = [qloc EXCEPT ![q].chains = Chains, ![q].i = 0]
            /\ qpc' = [qpc EXCEPT ![q] = AfterChain(Chains, 0)]
            /\ qresp' = qresp
    /\ UNCHANGED <<chainExec, qhist>>
    /\ UNCHANGED <<ingestVars, hubVars, convVars>>

\* Lines 312-318: store.GetChainExecutionFromChainAndToolCall for the next chain.
\* For a chain never executed against the tool call the Store has no execution: it
\* answers with an error or, as GetToolCall and GetToolFromNameAndRunId do for a
\* missing record, with (nil, nil); line 320 then dereferences the nil identifier.
QueryExecution(q, storeFails, absentIsError) ==
    /\ qpc[q] = "execution"
    /\ LET chain == qloc[q].chains[qloc[q].i + 1]
       IN  IF storeFails \/ (chainExec[chain] = "none" /\ absentIsError)
           THEN QueryError(q, "error getting chain execution")
           ELSE IF chainExec[chain] = "none"
           THEN /\ qresp' = [qresp EXCEPT ![q] = Panicked("nil pointer dereference")]
                /\ qpc' = [qpc EXCEPT ![q] = "idle"]
           ELSE /\ qpc' = [qpc EXCEPT ![q] = "state"]
                /\ qresp' = qresp
    /\ UNCHANGED <<chainExec, qloc, qhist>>
    /\ UNCHANGED <<ingestVars, hubVars, convVars>>

\* Adding a chain's state at the head of the list instead of its end.
prependChainState(chains, ceState) == <<ceState>> \o chains

\* Line 326: execution.Chains = append(execution.Chains, *ceState)
appendChainState(chains, ceState) == Append(chains, ceState)

\* Lines 320-326: store.GetChainExecutionState, appended to execution.Chains.
QueryState(q, storeFails) ==
    /\ qpc[q] = "state"
    /\ LET i == qloc[q].i + 1
           chain == qloc[q].chains[i]
           ceState == [Chain |-> chain, State |-> chainExec[chain]]
       IN  IF storeFails
           THEN /\ QueryError(q, "error getting chain execution state")
                /\ qloc' = qloc
           ELSE /\ qloc' = [qloc EXCEPT ![q].execution[1].Chains = appendChainState(@, ceState),
                                        ![q].i = i]
                /\ qpc' = [qpc EXCEPT ![q] = AfterChain(qloc[q].chains, i)]
                /\ qresp' = qresp
    /\ UNCHANGED <<chainExec, qhist>>
    /\ UNCHANGED <<ingestVars, hubVars, convVars>>

\* Lines 329-337: getToolCallStatus, then the response.
QueryStatus(q, storeFails) ==
    /\ qpc[q] = "status"
    /\ IF storeFails
       THEN /\ QueryError(q, "error getting tool call status")
            /\ qloc' = qloc
       ELSE LET execution == [qloc[q].execution[1] EXCEPT !.Status = getToolCallStatus(chainExec)]
            IN  /\ qloc' = [qloc EXCEPT ![q].execution = <<execution>>]
                /\ qresp' = [qresp EXCEPT ![q] = respondJSON(execution)]
                /\ qpc' = [qpc EXCEPT ![q] = "idle"]
    /\ UNCHANGED <<chainExec, qhist>>
    /\ UNCHANGED <<ingestVars, hubVars, convVars>>

\* The supervision layer starts the execution of a chain against the tool call.
StartChainExecution(c) ==
    /\ chainExec[c] = "none"
    /\ chainExec' = [chainExec EXCEPT ![c] = "pending"]
    /\ qhist' = [q \in Queries |-> [prev |-> <<>>, changed |-> TRUE]]
    /\ UNCHANGED <<qpc, qloc, qresp>>
    /\ UNCHANGED <<ingestVars, hubVars, convVars>>

\* The supervision layer moves a chain execution to another state.
UpdateChainState(c, state) ==
    /\ chainExec[c] \notin {"none", state}
    /\ chainExec' = [chainExec EXCEPT ![c] = state]
    /\ qhist' = [q \in Queries |-> [prev |-> <<>>, changed |-> TRUE]]
    /\ UNCHANGED <<qpc, qloc, qresp>>
    /\ UNCHANGED <<ingestVars, hubVars, convVars>>

QueryInit ==
    /\ chainExec = [c \in 1..MaxChains |-> "none"]
    /\ qpc = [q \in Queries |-> "idle"]
    /\ qloc = [q \in Queries |-> EmptyQloc]
    /\ qresp = [q \in Queries |-> NoResponse]
    /\ qhist = [q \in Queries |-> [prev |-> <<>>, changed |-> FALSE]]

QueryNext ==
    \/ \E q \in Queries :
        \/ \E id \in ToolCallIds, storeFails \in BOOLEAN : QueryBegin(q, id, storeFails)
        \/ \E storeFails \in BOOLEAN : QueryChains(q, storeFails)
        \/ \E storeFails \in BOOLEAN, absentIsError \in BOOLEAN :
               QueryExecution(q, storeFails, absentIsError)
        \/ \E storeFails \in BOOLEAN : QueryState(q, storeFails)
        \/ \E storeFails \in BOOLEAN : QueryStatus(q, storeFails)
    \/ \E c \in 1..MaxChains : StartChainExecution(c)
    \/ \E c \in 1..MaxChains, state \in ChainStates : UpdateChainState(c, state)

---------------------------------------------------------------------------
(* The review hub: main creates it (NewHub) and starts its loop            *)
(* (go hub.Run()); /ws registers a subscriber, /api/review publishes.      *)
(* The loop alone changes the registry: each of HubRegister, HubUnregister *)
(* and HubPublish is one iteration of it.                                  *)

Subscribers == 1..NumSubscribers

Events == 1..MaxEvents

\* A queue that has room whatever it holds: the hub would queue without bound.
hasRoomAlways(queue) == TRUE

\* A subscriber's outbound queue takes another event.
hasRoom(queue) == Len(queue) < SendBuffer

\* Queueing an event ahead of the events still waiting.
enqueueFirst(queue, e) == <<e>> \o queue

\* The non-blocking send of event e on a subscriber's outbound queue.
enqueue(queue, e) == Append(queue, e)

\* serveWs: the connection is upgraded and its register request sent to the hub.
Connect(s) ==
    /\ subState[s] = "new"
    /\ subState' = [subState EXCEPT ![s] = "connecting"]
    /\ UNCHANGED <<clients, unregisterReq, send, received, published, audience,
                   delivered, droppedAt>>
    /\ UNCHANGED <<ingestVars, queryVars, convVars>>

\* A loop that takes a register request of a connection it had unregistered.
HubRegisterAgain(s) ==
    /\ subState[s] \in {"connecting", "unregistered"}
    /\ subState' = [subState EXCEPT ![s] = "registered"]
    /\ clients' = clients \cup {s}
    /\ UNCHANGED <<unregisterReq, send, received, published, audience, delivered, droppedAt>>
    /\ UNCHANGED <<ingestVars, queryVars, convVars>>

\* The loop takes a register request: the subscriber joins the registry.
HubRegister(s) ==
    /\ subState[s] = "connecting"
    /\ subState' = [subState EXCEPT ![s] = "registered"]
    /\ clients' = clients \cup {s}
    /\ UNCHANGED <<unregisterReq, send, received, published, audience, delivered, droppedAt>>
    /\ UNCHANGED <<ingestVars, queryVars, convVars>>

\* The client disconnects, a write to it fails or the connection is closed: the
\* connection's unregister request is sent to the hub.
Disconnect(s) ==
    /\ subState[s] = "registered"
    /\ s \notin unregisterReq
    /\ unregisterReq' = unregisterReq \cup {s}
    /\ UNCHANGED <<clients, subState, send, received, published, audience, delivered,
                   droppedAt>>
    /\ UNCHANGED <<ingestVars, queryVars, convVars>>

\* The loop takes an unregister request: a subscriber still in the registry leaves
\* it and its outbound queue is closed.
HubUnregister(s) ==
    /\ s \in unregisterReq
    /\ unregisterReq' = unregisterReq \ {s}
    /\ IF s \in clients
       THEN /\ clients' = clients \ {s}
            /\ subState' = [subState EXCEPT ![s] = "unregistered"]
            /\ send' = [send EXCEPT ![s] = <<>>]
       ELSE UNCHANGED <<clients, subState, send>>
    /\ UNCHANGED <<received, published, audience, delivered, droppedAt>>
    /\ UNCHANGED <<ingestVars, queryVars, convVars>>

\* The loop takes a published event and sends it to every subscriber of the
\* registry without blocking: a subscriber whose queue is full is unregistered.
HubPublish ==
    /\ published < MaxEvents
    /\ LET e == published + 1
           served == {s \in clients : hasRoom(send[s])}
           dropped == clients \ served
       IN  /\ published' = e
           /\ audience' = [audience EXCEPT ![e] = clients]
           /\ send' = [s \in Subscribers |->
                          IF s \in served THEN enqueue(send[s], e)
                          ELSE IF s \in dropped THEN <<>>
                          ELSE send[s]]
           /\ delivered' = [s \in Subscribers |->
                               IF s \in served THEN Append(delivered[s], e) ELSE delivered[s]]
           /\ droppedAt' = [s \in Subscribers |-> IF s \in dropped THEN e ELSE droppedAt[s]]
           /\ clients' = served
           /\ subState' = [s \in Subscribers |->
                              IF s \in dropped THEN "unregistered" ELSE subState[s]]
    /\ UNCHANGED <<unregisterReq, received>>
    /\ UNCHANGED <<ingestVars, queryVars, convVars>>

\* The subscriber's writer takes the next event of its queue and writes it to the connection.
WritePump(s) ==
    /\ send[s] # <<>>
    /\ received' = [received EXCEPT ![s] = Append(@, Head(send[s]))]
    /\ send' = [send EXCEPT ![s] = Tail(@)]
    /\ UNCHANGED <<clients, subState, unregisterReq, published, audience, delivered, droppedAt>>
    /\ UNCHANGED <<ingestVars, queryVars, convVars>>

\* NewHub: an empty registry, nothing published.
HubInit ==
    /\ clients = {}
    /\ subState = [s \in Subscribers |-> "new"]
    /\ unregisterReq = {}
    /\ send = [s \in Subscribers |-> <<>>]
    /\ received = [s \in Subscribers |-> <<>>]
    /\ published = 0
    /\ audience = [e \in Events |-> {}]
    /\ delivered = [s \in Subscribers |-> <<>>]
    /\ droppedAt = [s \in Subscribers |-> 0]

HubNext ==
    \/ \E s \in Subscribers : Connect(s)
    \/ \E s \in Subscribers : HubRegister(s)
    \/ \E s \in Subscribers : Disconnect(s)
    \/ \E s \in Subscribers : HubUnregister(s)
    \/ HubPublish
    \/ \E s \in Subscribers : WritePump(s)

---------------------------------------------------------------------------
(* convertMessage on its own, over messages with multi-part content.       *)

\* openai.ChatMessagePart: a text part, an image part, and an image part that
\* came without its image_url object (ImageURL is then nil).
TextPart(text) == [Type |-> "text", Text |-> text, HasImageURL |-> FALSE, URL |-> ""]
ImagePart(url) == [Type |-> "image_url", Text |-> "", HasImageURL |-> TRUE, URL |-> url]
BareImagePart == [Type |-> "image_url", Text |-> "", HasImageURL |-> FALSE, URL |-> ""]

Parts == {TextPart("t"), ImagePart("u1"), ImagePart("u2"), BareImagePart}

\* A message whose content was an array of parts: Content is empty, MultiContent is not nil.
OaMultiMessage(role, parts, toolNames) ==
    [OaMessage(role, "", toolNames) EXCEPT !.HasMulti = TRUE, !.MultiContent = parts]

\* The messages convertMessage is given: plain ones with and without text, and
\* multi-part ones, each with no tool call, a registered one or an unknown one.
ConvMessages ==
    {OaMessage("user", content, toolNames) :
        content \in {"", "a"}, toolNames \in {<<>>, <<"t1">>, <<"ghost">>}}
    \cup {OaMultiMessage("user", parts, toolNames) :
             parts \in SeqsUpTo(Parts, MaxParts), toolNames \in {<<>>, <<"t1">>, <<"ghost">>}}

ConvInit ==
    /\ cmMessage = OaMessage("user", "a", <<>>)
    /\ cmResult = <<>>

\* message, err := convertMessage(ctx, message, runId, store)
Convert ==
    /\ cmResult = <<>>
    /\ cmResult' = <<convertMessage(cmMessage, 1, 0, "none")>>
    /\ UNCHANGED cmMessage
    /\ UNCHANGED <<ingestVars, queryVars, hubVars>>

\* The caller goes on to its next message.
ConvNextMessage ==
    /\ cmResult # <<>>
    /\ cmMessage' \in ConvMessages
    /\ cmResult' = <<>>
    /\ UNCHANGED <<ingestVars, queryVars, hubVars>>

ConvNext == Convert \/ ConvNextMessage

---------------------------------------------------------------------------
(* Specifications: the ingestion pipeline, the state query and the hub.    *)

vars == <<ingestVars, queryVars, hubVars, convVars>>

Init == IngestInit /\ QueryInit /\ HubInit /\ ConvInit

Next == IngestNext

Spec == Init /\ [][Next]_vars

QuerySpec == Init /\ [][QueryNext]_vars

HubSpec == Init /\ [][HubNext]_vars

ConcSpec == Init /\ [][ConcNext]_vars

ConvSpec == Init /\ [][ConvNext]_vars

---------------------------------------------------------------------------
(* The ingestion pipeline's properties.                                    *)

\* The request of handler h replays the logged messages: its first k converted
\* messages are the k messages the Store returned, up to their fresh identifiers.
SameMessage(a, b) ==
    /\ a.Role = b.Role
    /\ a.Type = b.Type
    /\ a.Content = b.Content
    /\ Len(a.ToolCalls) = Len(b.ToolCalls)
    /\ \A i \in 1..Len(a.ToolCalls) : a.ToolCalls[i].Name = b.ToolCalls[i].Name

ReplaysLog(h) ==
    LET request == loc[h].requestMessages
        logged == loc[h].messagesForRun
    IN  /\ loc[h].filtered
        /\ Len(logged) <= Len(request)
        /\ \A i \in 1..Len(logged) : SameMessage(request[i], logged[i])

\* C1: when the Store holds k logged messages and the request is those k messages
\* followed by m new ones, CreateChatRequest is handed exactly the last m converted
\* messages of the request, in request order (none when m = 0).
C1_IdempotentFiltering ==
    \A h \in Handlers :
        (loc[h].createArgs # <<>> /\ ReplaysLog(h)) =>
            LET request == loc[h].requestMessages
                k == Len(loc[h].messagesForRun)
                m == Len(request) - k
                handed == loc[h].createArgs[1].newRequestMessages
            IN  /\ Len(handed) = m
                /\ \A i \in 1..m : handed[i] = request[k + i]

C1_Witness ==
    \E h \in Handlers :
        /\ loc[h].createArgs # <<>>
        /\ ReplaysLog(h)
        /\ Len(loc[h].messagesForRun) >= 1
        /\ Len(loc[h].requestMessages) > Len(loc[h].messagesForRun)
        /\ resp[h].outcome = "ok"

\* C2: the number of logged messages never decreases, and at every prefix cut it
\* is at most the number of messages of the request, so no cut is out of range.
C2_LoggedWithinRequest ==
    [][ /\ Len(storeMsgs') >= Len(storeMsgs)
        /\ \A h \in Handlers :
              loc'[h].filtered =>
                  /\ Len(loc'[h].messagesForRun) <= Len(loc'[h].requestMessages)
                  /\ resp'[h].outcome # "panic" ]_vars

NamesUnknownTool(h) ==
    \E c \in 1..Len(loc[h].jsonResponse) :
        \E i \in 1..Len(loc[h].jsonResponse[c].Message.ToolCalls) :
            loc[h].jsonResponse[c].Message.ToolCalls[i].Name \notin RegisteredTools

\* C4: when a tool call of a response choice names a tool that is not registered,
\* the ingestion ends with status 400, CreateChatRequest is never called and no
\* identifiers are returned, whatever else in the response resolves.
C4_UnknownToolRejected ==
    \A h \in Handlers :
        NamesUnknownTool(h) =>
            /\ pc[h] = "idle"
            /\ resp[h].outcome = "error"
            /\ resp[h].status = StatusBadRequest
            /\ resp[h].body = <<>>
            /\ loc[h].createArgs = <<>>

C4_Witness ==
    \E h \in Handlers :
        /\ NamesUnknownTool(h)
        /\ resp[h].cause = "tool not found"
        /\ \E c \in 1..Len(loc[h].jsonResponse) :
              \A i \in 1..Len(loc[h].jsonResponse[c].Message.ToolCalls) :
                  loc[h].jsonResponse[c].Message.ToolCalls[i].Name \in RegisteredTools

\* C7: an ingestion that fails on malformed input or an unresolved tool name
\* answers 400, and one that fails on a Store failure answers 500, never 400.
C7_StoreFailureIs500 ==
    \A h \in Handlers :
        resp[h].outcome = "error" =>
            IF resp[h].cause \in StoreFailures
            THEN resp[h].status = StatusInternalServerError
            ELSE resp[h].status = StatusBadRequest

\* An ingestion of handler h has run to its end.
Finished(h) == pc[h] = "idle" /\ loc[h].n > 0

\* The Store write of handler h's ingestion happened at most once, and only with
\* the request decoded, the messages filtered and the choices converted before it.
WrittenOnceAfterAllSteps(h) ==
    /\ Len(loc[h].createArgs) <= 1
    /\ loc[h].createArgs # <<>> =>
          /\ loc[h].filtered
          /\ loc[h].createArgs[1].jsonRequest = loc[h].jsonRequest
          /\ loc[h].createArgs[1].newRequestMessages = loc[h].newRequestMessages
          /\ loc[h].createArgs[1].jsonResponse = loc[h].jsonResponse
          /\ loc[h].createArgs[1].choices = loc[h].choices
          /\ Len(loc[h].choices) = Len(loc[h].jsonResponse)

\* The ingestion of handler h stopped at its first failing step: a failure before
\* the write leaves the write uninvoked, and a failure before the prefix cut
\* leaves the logged messages unread.
StoppedAtFailure(h) ==
    (Finished(h) /\ resp[h].outcome # "ok") =>
        /\ resp[h].body = <<>>
        /\ loc[h].createArgs # <<>> => resp[h].cause = "error creating chat request"
        /\ (resp[h].error \in {"Invalid JSON format", "Request"}) => ~loc[h].filtered

\* C12: every ingestion invokes the Store write at most once and only after
\* request decoding, filtering, response decoding and choice conversion succeeded;
\* an ingestion in which a step failed stopped at that step, and its response
\* carries an error and no identifiers.
C12_FailFastSingleWrite ==
    \A h \in Handlers :
        /\ WrittenOnceAfterAllSteps(h)
        /\ StoppedAtFailure(h)
        /\ Finished(h) => resp[h].outcome \in {"ok", "error"}
        /\ (Finished(h) /\ resp[h].outcome = "ok") => loc[h].createArgs # <<>>

\* C14: the identifiers a successful ingestion returns are the chat identifier the
\* Store returned and one entry per response choice, in response order, with the
\* fresh identifier of the choice converted from it (which keeps the response's
\* index) and the identifier of its message; a response with no choices is no
\* error of the conversion and yields an empty list.
C14_ChoiceProjection ==
    \A h \in Handlers :
        /\ resp[h].outcome = "ok" =>
              LET ids == resp[h].body[1]
                  response == loc[h].jsonResponse
                  written == loc[h].createArgs[1].choices
              IN  /\ ids.ChatId = <<"chat", numChats>>
                  /\ Len(ids.ChoiceIds) = Len(response)
                  /\ Len(written) = Len(response)
                  /\ \A c \in 1..Len(response) :
                        /\ ids.ChoiceIds[c].ChoiceId = written[c].SentinelId
                        /\ ids.ChoiceIds[c].MessageId = written[c].Message.Id
                        /\ ids.ChoiceIds[c].ChoiceId # ids.ChoiceIds[c].MessageId
                        /\ written[c].Index = response[c].Index
                        /\ written[c].FinishReason = response[c].FinishReason
                        /\ written[c].Message.Content = response[c].Message.Content
                  /\ \A c, d \in 1..Len(response) :
                        c # d => /\ ids.ChoiceIds[c].ChoiceId # ids.ChoiceIds[d].ChoiceId
                                 /\ ids.ChoiceIds[c].MessageId # ids.ChoiceIds[d].MessageId
                                 /\ ids.ChoiceIds[c].ChoiceId # ids.ChoiceIds[d].MessageId
        /\ (Finished(h) /\ resp[h].error = "Error converting choices") =>
              loc[h].jsonResponse # <<>>
        /\ (Finished(h) /\ loc[h].createArgs # <<>> /\ loc[h].jsonResponse = <<>>
              /\ resp[h].cause # "error creating chat request") =>
              /\ resp[h].outcome = "ok"
              /\ resp[h].body[1].ChoiceIds = <<>>

C14_Witness ==
    \E h \in Handlers :
        /\ resp[h].outcome = "ok"
        /\ Len(loc[h].jsonResponse) = 2
        /\ loc[h].jsonResponse[1].Index = 0
        /\ loc[h].jsonResponse[2].Index = 1
        /\ Len(resp[h].body[1].ChoiceIds) = 2

\* Some position of the requests was logged twice.
PersistedTwice ==
    \E i, j \in 1..Len(persistedAt) : i # j /\ persistedAt[i] = persistedAt[j]

\* Handlers g and h both read the logged messages before either wrote, and both
\* wrote new messages since.
BothReadThenWrote(g, h) ==
    /\ g # h
    /\ resp[g].outcome = "ok" /\ resp[h].outcome = "ok"
    /\ Len(loc[g].messagesForRun) = Len(loc[h].messagesForRun)
    /\ loc[g].newRequestMessages # <<>> /\ loc[h].newRequestMessages # <<>>

\* C15: nothing keeps two ingestions of a run from reading the same count of logged
\* messages before either writes, and when both then write, the message at the
\* first position past that count is logged twice; when no ingestion begins while
\* another is in flight, the i-th logged message is the i-th message of the
\* request it came with, so no position is logged twice.
C15_RacePersistsTwice ==
    /\ Len(persistedAt) = Len(storeMsgs)
    /\ \A g, h \in Handlers :
          BothReadThenWrote(g, h) =>
              /\ PersistedTwice
              /\ Cardinality({i \in 1..Len(persistedAt) :
                                 persistedAt[i] = Len(loc[g].messagesForRun) + 1}) >= 2
    /\ ~overlapped => \A i \in 1..Len(persistedAt) : persistedAt[i] = i

C15_Witness ==
    \E g, h \in Handlers :
        /\ BothReadThenWrote(g, h)
        /\ loc[g].messagesForRun = <<>>
        /\ Len(loc[g].requestMessages) = 1
        /\ Len(loc[h].requestMessages) = 1
        /\ SameMessage(loc[g].requestMessages[1], loc[h].requestMessages[1])
        /\ Len(storeMsgs) = 2
        /\ SameMessage(storeMsgs[1], storeMsgs[2])
        /\ persistedAt = <<1, 1>>

\* The positions of the image-url parts of a message's multi-part content.
ImageParts(message) ==
    {i \in 1..Len(message.MultiContent) : message.MultiContent[i].Type = "image_url"}

\* C16: converting a message whose multi-part content holds an image-url part gives
\* type ImageUrl with the URL of the last such part; converting any other message
\* gives type Text with the message's text; and the conversion fails only on a
\* tool call, never on the content.
C16_Classification ==
    cmResult # <<>> =>
        LET result == cmResult[1]
            images == ImageParts(cmMessage)
        IN  /\ result.res # "panic"
            /\ (\A j \in 1..Len(cmMessage.ToolCalls) :
                    cmMessage.ToolCalls[j].Name \in RegisteredTools) => result.res = "ok"
            /\ result.res = "ok" =>
                  IF images # {}
                  THEN /\ result.val.Type = ImageUrl
                       /\ result.val.Content = cmMessage.MultiContent[Max(images)].URL
                  ELSE /\ result.val.Type = Text
                       /\ result.val.Content = cmMessage.Content

\* The decoded request of handler h names, in some tool call of some message, a
\* tool that is not registered.
RequestNamesUnknownTool(h) ==
    \E i \in 1..Len(loc[h].jsonRequest) :
        \E j \in 1..Len(loc[h].jsonRequest[i].ToolCalls) :
            loc[h].jsonRequest[i].ToolCalls[j].Name \notin RegisteredTools

\* C17: the logged messages are read only once every message of the request has
\* had its tool calls resolved; an ingestion whose request names a tool that is not
\* registered, be it in a message the prefix cut would drop, is answered with the
\* request's error, reads no logged message and writes nothing.
C17_ResolvedBeforeCut ==
    \A h \in Handlers :
        /\ (pc[h] # "idle" \/ loc[h].filtered) => ~RequestNamesUnknownTool(h)
        /\ unknownInLogged[h] =>
              /\ pc[h] = "idle"
              /\ resp[h].outcome = "error"
              /\ resp[h].error = "Request"
              /\ ~loc[h].filtered
              /\ loc[h].messagesForRun = <<>>
              /\ loc[h].createArgs = <<>>

C17_Witness ==
    \E h \in Handlers :
        /\ unknownInLogged[h]
        /\ storeMsgs # <<>>
        /\ resp[h].cause = "tool not found"
        /\ ~loc[h].filtered

---------------------------------------------------------------------------
(* The state query's properties.                                           *)

\* C5: the Status of a returned RunExecution is the aggregation rule applied to
\* the per-chain states returned in the same response, whatever the supervisors
\* do to the chain states while the query runs.
C5_StatusOfReturnedStates ==
    \A q \in Queries :
        qresp[q].outcome = "ok" =>
            LET execution == qresp[q].body[1]
            IN  execution.Status =
                    AggregateStatus([i \in 1..Len(execution.Chains) |-> execution.Chains[i].State])

\* C6: when the handler looks up the execution of a chain that was never executed
\* against the tool call, the query ends with an error response: it does not
\* crash, and it returns no RunExecution.
C6_AbsentExecutionIsError ==
    [][ \A q \in Queries :
            ( /\ qpc[q] = "execution"
              /\ qpc'[q] # "execution"
              /\ chainExec[qloc[q].chains[qloc[q].i + 1]] = "none" )
            => qresp'[q].outcome = "error" ]_vars

\* C10: a tool call the Store does not hold is answered 404 and a Store error of
\* its lookup 500; either way the handler stops there: it reads no chain and no
\* chain state, and returns no RunExecution.
C10_NotFoundApartFromFailure ==
    \A q \in Queries :
        /\ qloc[q].lookup = "nil" => qresp[q].status = 404
        /\ qloc[q].lookup = "err" => qresp[q].status = 500
        /\ qloc[q].lookup \in {"nil", "err"} =>
              /\ qpc[q] = "idle"
              /\ qresp[q].outcome = "error"
              /\ qresp[q].body = <<>>
              /\ qloc[q].chains = <<>>
              /\ qloc[q].execution = <<>>

C10_Witness ==
    \E q \in Queries :
        /\ qloc[q].lookup = "nil"
        /\ qloc[q].toolCallId = "missing"
        /\ qresp[q].status = 404
        /\ \E c \in 1..MaxChains : chainExec[c] # "none"


\* C11: a successful query returns one state per chain of the tool, the i-th
\* being that of the i-th chain of the Store's enumeration; and when no chain state
\* changed since the query before it began, it returns the list that query returned.
\* (qhist[q].prev is that list, and is empty once a chain state has changed.)
C11_OrderStable ==
    \A q \in Queries :
        qresp[q].outcome = "ok" =>
            LET returned == qresp[q].body[1].Chains
            IN  /\ Len(returned) = Len(Chains)
                /\ \A i \in 1..Len(returned) : returned[i].Chain = Chains[i]
                /\ qhist[q].prev # <<>> => returned = qhist[q].prev[1]

C11_Witness ==
    \E q \in Queries :
        /\ qresp[q].outcome = "ok"
        /\ qhist[q].prev # <<>>
        /\ Len(qresp[q].body[1].Chains) >= 2
        /\ qresp[q].body[1].Chains[1].State # qresp[q].body[1].Chains[2].State

---------------------------------------------------------------------------
(* The hub's properties.                                                   *)

Occurrences(seq, e) == Cardinality({i \in 1..Len(seq) : seq[i] = e})

Increasing(seq) == \A i, j \in 1..Len(seq) : i < j => seq[i] < seq[j]

IsPrefix(a, b) == Len(a) <= Len(b) /\ \A i \in 1..Len(a) : a[i] = b[i]

\* What holds of the hub whether or not a queue was ever full: a subscriber is
\* queued events in publish order, only events published while it was registered,
\* and its connection is written the events queued for it, in that order.
InOrderNoBacklog ==
    \A s \in Subscribers :
        /\ Increasing(delivered[s])
        /\ IsPrefix(received[s], delivered[s])
        /\ \A e \in 1..published : s \notin audience[e] => Occurrences(delivered[s], e) = 0

Lifecycle == {<<"new", "connecting">>, <<"connecting", "registered">>,
              <<"registered", "unregistered">>}

\* C13: a subscriber connection moves only from connecting to registered and from
\* registered to unregistered, and never leaves unregistered; the registry holds
\* exactly the registered subscribers; a subscriber leaves the registry when the
\* loop takes its unregister request, sent on disconnect, write failure or close
\* (or when its queue is full at a publish); and an unregistered subscriber is
\* neither queued nor written any event published from then on.
C13_SubscriberLifecycle ==
    /\ [](\A s \in Subscribers :
             /\ s \in clients <=> subState[s] = "registered"
             /\ s \in unregisterReq => subState[s] \in {"registered", "unregistered"})
    /\ [][\A s \in Subscribers :
             /\ subState'[s] # subState[s] => <<subState[s], subState'[s]>> \in Lifecycle
             /\ (s \in clients /\ s \notin clients') =>
                    \/ s \in unregisterReq /\ s \notin unregisterReq'
                    \/ droppedAt'[s] = published'
             /\ subState[s] = "unregistered" =>
                    /\ subState'[s] = "unregistered"
                    /\ delivered'[s] = delivered[s]
                    /\ received'[s] = received[s]
                    /\ published' # published => s \notin audience'[published']]_vars

C13_Witness ==
    \E s, t \in Subscribers :
        /\ subState[s] = "unregistered"
        /\ droppedAt[s] = 0
        /\ delivered[s] = <<1>>
        /\ published >= 2
        /\ Occurrences(delivered[t], published) = 1

\* C9: no outbound queue ever holds more than its bound; the hub takes the next
\* publish whatever the queues hold; a subscriber whose queue was full at a publish
\* is out of the registry for good, and the other subscribers registered at that
\* publish were served that event all the same.
C9_SlowSubscriberIsolated ==
    /\ \A s \in Subscribers : Len(send[s]) <= SendBuffer
    /\ published < MaxEvents => ENABLED HubPublish
    /\ \A s \in Subscribers :
          droppedAt[s] # 0 =>
              /\ s \notin clients
              /\ subState[s] = "unregistered"
              /\ send[s] = <<>>
              /\ \A t \in audience[droppedAt[s]] :
                    droppedAt[t] # droppedAt[s] => Occurrences(delivered[t], droppedAt[s]) = 1

C9_Witness ==
    \E s, t \in Subscribers :
        /\ droppedAt[s] # 0
        /\ t \in audience[droppedAt[s]]
        /\ t \in clients
        /\ Occurrences(delivered[t], droppedAt[s]) = 1
        /\ Len(delivered[s]) = SendBuffer

====
